---- MODULE Spec2Model ----
(***************************************************************************)
(* Model of the code review assistant: the CodeReviewer orchestrator and   *)
(* its three static-analysis adapters (reviewer.py) and the Streamlit page *)
(* that calls it, caches the last result and renders it (app.py).          *)
(*                                                                         *)
(* Text is modelled as a sequence of tokens (a source string is a sequence *)
(* of characters, a message a sequence of words); Python's None is the     *)
(* record None, an empty list or dict is the empty sequence.               *)
(*                                                                         *)
(* Three specifications share the operators below:                         *)
(*   Spec    one call of CodeReviewer.review_code, statement by statement, *)
(*           made by any caller with any code and language;                *)
(*   FairSpec  Spec with the progress a running call makes;                *)
(*   SpecUI  the page: each script rerun is one action, the button         *)
(*           handler calling review_code as a whole.                       *)
(***************************************************************************)
EXTENDS Integers, Sequences, FiniteSets, TLC

\* ------------------------------------------------------------------------
\* Bounds of the model
\* ------------------------------------------------------------------------
MaxCodeLen == 1   \* characters in a submitted code string
MaxLines == 2     \* lines of pylint output
MaxIssues == 2    \* issues in a bandit document
MaxFiles == 2     \* file results in an eslint document
MaxMsgs == 1      \* messages per eslint file result
MaxGen == 2       \* tokens of generated model text
MaxLeaks == 1     \* temporary files left on disk

\* ------------------------------------------------------------------------
\* Values
\* ------------------------------------------------------------------------
None == [tag |-> "None"]

SeqsUpTo(S, n) == UNION {[1..k -> S] : k \in 0..n}

Whitespace == {" "}
Chars == {" ", "a"}
Codes == SeqsUpTo(Chars, MaxCodeLen)

\* The languages a caller may pass; the page's selectbox offers the first two.
SelectableLanguages == {"Python", "JavaScript"}
Languages == SelectableLanguages \cup {"Ruby", "python"}

Adapters == {"pylint", "bandit", "eslint"}

RECURSIVE LStrip(_)
LStrip(s) ==
    IF s = <<>> THEN s
    ELSE IF Head(s) \in Whitespace THEN LStrip(Tail(s)) ELSE s

RECURSIVE RStrip(_)
RStrip(s) ==
    IF s = <<>> THEN s
    ELSE IF s[Len(s)] \in Whitespace THEN RStrip(SubSeq(s, 1, Len(s) - 1)) ELSE s

\* str.strip()
Strip(s) == RStrip(LStrip(s))

\* dict.get(key, default)
Get(d, key, default) == IF key \in DOMAIN d THEN d[key] ELSE default

\* str(int) for the small numbers the model uses
Digits == <<"0", "1", "2", "3", "4", "5", "6", "7", "8", "9">>
Str(n) == Digits[n + 1]

\* ------------------------------------------------------------------------
\* What the external tools can do (the environment of one adapter call)
\* ------------------------------------------------------------------------
PylintDiags ==
    { [line |-> 1, message |-> "unused-import", type |-> "warning", confidence |-> "HIGH"],
      [line |-> 2, message |-> "missing-docstring", type |-> "convention", confidence |-> "HIGH"] }

\* One line of pylint's stdout: a JSON object, or text json.loads rejects.
PylintLines ==
    { [kind |-> "json", value |-> d] : d \in PylintDiags }
        \cup { [kind |-> "garbage", value |-> None] }
PylintStdouts == SeqsUpTo(PylintLines, MaxLines)

BanditIssues ==
    { [line_number |-> 3, issue_text |-> "exec-used", severity |-> "MEDIUM",
       confidence |-> "HIGH", test_name |-> "B102", code |-> "exec(x)"] }

\* bandit's stdout: nothing, one JSON document, or text json.loads rejects.
BanditStdouts ==
    { [kind |-> "json", value |-> [results |-> s]] : s \in SeqsUpTo(BanditIssues, MaxIssues) }
        \cup { [kind |-> "garbage", value |-> None], [kind |-> "empty", value |-> None] }

EslintMessages ==
    { [line |-> 4, message |-> "no-undef", severity |-> 2, ruleId |-> "no-undef"] }
EslintFileResults ==
    { [filePath |-> "tmp.js", messages |-> m] : m \in SeqsUpTo(EslintMessages, MaxMsgs) }
EslintStdouts ==
    { [kind |-> "json", value |-> s] : s \in SeqsUpTo(EslintFileResults, MaxFiles) }
        \cup { [kind |-> "garbage", value |-> None] }

Stdouts(a) ==
    CASE a = "pylint" -> PylintStdouts
      [] a = "bandit" -> BanditStdouts
      [] a = "eslint" -> EslintStdouts

ExcMsgs == {"Permission denied"}

\* subprocess.run(..., timeout=30)
Timeout == 30

\* How one adapter call can go. The tool is started and is done after secs
\* seconds, having printed out (ran); or subprocess.run raises
\* FileNotFoundError because the executable is not on the path (notfound) or
\* some other exception (exception); or f.write raises inside the with block,
\* before temp_file is assigned (writefail). The output of a run that is cut
\* off by the timeout is never read, so it is not enumerated.
Outcomes(a) ==
    { [kind |-> "ran", secs |-> 1, out |-> s, msg |-> ""] : s \in Stdouts(a) }
        \cup { [kind |-> "ran", secs |-> Timeout + 1, out |-> <<>>, msg |-> ""] }
        \cup { [kind |-> "notfound", secs |-> 0, out |-> <<>>, msg |-> ""] }
        \cup { [kind |-> k, secs |-> 0, out |-> <<>>, msg |-> m] :
                   k \in {"exception", "writefail"}, m \in ExcMsgs }

\* The exception the try block of an adapter ends with, "" when it returns
\* normally.
Raised(o) ==
    CASE o.kind = "ran" -> IF o.secs > Timeout THEN "TimeoutExpired" ELSE ""
      [] o.kind = "notfound" -> "FileNotFoundError"
      [] OTHER -> "Exception"

\* ------------------------------------------------------------------------
\* reviewer.py: the adapters
\* ------------------------------------------------------------------------
\* The value of the local temp_file when the finally block runs: the name is
\* assigned after f.write, so a failed write leaves it None.
TempFileVar(a, o) == IF o.kind = "writefail" THEN None ELSE [name |-> a]

\* The number of temporary files on disk after the call, n before it:
\* NamedTemporaryFile(delete=False) has created one; the finally block unlinks
\* it when temp_file is set (the file then exists: nothing else removes it).
FilesAfter(a, o, n) ==
    LET created == n + 1
        temp_file == TempFileVar(a, o)
    IN  IF temp_file # None THEN created - 1 ELSE created

\* The loop over pylint's output lines: a line json.loads rejects is skipped.
RECURSIVE ParsePylint(_)
ParsePylint(lines) ==
    IF lines = <<>> THEN <<>>
    ELSE IF Head(lines).kind = "json"
         THEN <<Head(lines).value>> \o ParsePylint(Tail(lines))
         ELSE ParsePylint(Tail(lines))

\* The single-document parse of bandit and eslint: the default when stdout is
\* blank or json.loads rejects it.
ParseDocument(stdout, default) ==
    IF stdout.kind = "json" THEN stdout.value ELSE default

TimeoutError(a) ==
    CASE a = "pylint" -> <<"Pylint", "timed", "out">>
      [] a = "bandit" -> <<"Bandit", "timed", "out">>
      [] a = "eslint" -> <<"ESLint", "timed", "out">>

NotFoundError(a) ==
    CASE a = "pylint" -> <<"pylint", "not", "found.", "Run:", "pip", "install", "pylint">>
      [] a = "bandit" -> <<"bandit", "not", "found.", "Run:", "pip", "install", "bandit">>
      [] a = "eslint" -> <<"ESLint/Node", "not", "found.", "Install", "Node.js", "+",
                           "npm", "install", "-g", "eslint">>

\* A timeout handler that reports the run as a success without diagnostics.
TimeoutResult_Success(a) ==
    [success |-> TRUE, results |-> <<>>, raw_output |-> <<>>, errors |-> <<>>]

\* except subprocess.TimeoutExpired
TimeoutResult(a) == [success |-> FALSE, error |-> TimeoutError(a), results |-> <<>>]

\* No handler for FileNotFoundError: the generic handler reports str(e).
NotFoundResult_Generic(a) ==
    [success |-> FALSE, error |-> <<"No such file or directory">>, results |-> <<>>]

\* except FileNotFoundError
NotFoundResult(a) == [success |-> FALSE, error |-> NotFoundError(a), results |-> <<>>]

\* except Exception as e
ExceptionResult(o) == [success |-> FALSE, error |-> <<o.msg>>, results |-> <<>>]

Failure(a, o) ==
    CASE Raised(o) = "TimeoutExpired" -> TimeoutResult(a)
      [] Raised(o) = "FileNotFoundError" -> NotFoundResult(a)
      [] OTHER -> ExceptionResult(o)

run_pylint_analysis(o) ==
    IF Raised(o) = ""
    THEN [success |-> TRUE, results |-> ParsePylint(o.out), raw_output |-> o.out, errors |-> <<>>]
    ELSE Failure("pylint", o)

run_bandit_analysis(o) ==
    IF Raised(o) = ""
    THEN [success |-> TRUE, results |-> ParseDocument(o.out, <<>>), raw_output |-> o.out,
          errors |-> <<>>]
    ELSE Failure("bandit", o)

run_eslint_analysis(o) ==
    IF Raised(o) = ""
    THEN [success |-> TRUE, results |-> ParseDocument(o.out, <<>>), raw_output |-> o.out,
          errors |-> <<>>]
    ELSE Failure("eslint", o)

RunAdapter(a, o) ==
    CASE a = "pylint" -> run_pylint_analysis(o)
      [] a = "bandit" -> run_bandit_analysis(o)
      [] a = "eslint" -> run_eslint_analysis(o)

\* ------------------------------------------------------------------------
\* reviewer.py: the AI commentary invoker
\* ------------------------------------------------------------------------
Sentinel == "REVIEW:"
GenTokens == {Sentinel, " ", "ok"}
GenTexts == SeqsUpTo(GenTokens, MaxGen)

\* How one call of run_ai_analysis can go: the pipeline generates text
\* (generated), the import of transformers/torch fails (import_error), the
\* pipeline raises (error), or an exception is raised in run_ai_analysis
\* outside call_huggingface_model (escape).
AiOutcomesOver(texts) ==
    { [kind |-> "generated", text |-> t, msg |-> ""] : t \in texts }
        \cup { [kind |-> "import_error", text |-> <<>>, msg |-> ""] }
        \cup { [kind |-> k, text |-> <<>>, msg |-> m] : k \in {"error", "escape"}, m \in ExcMsgs }
AiOutcomes == AiOutcomesOver(GenTexts)

\* feedback.split("REVIEW:")[-1]
RECURSIVE AfterLast(_)
AfterLast(text) ==
    IF text = <<>> THEN <<>>
    ELSE IF text[Len(text)] = Sentinel THEN <<>>
    ELSE AfterLast(SubSeq(text, 1, Len(text) - 1)) \o <<text[Len(text)]>>

NoFeedback == <<"AI", "model", "generated", "no", "specific", "feedback.">>

\* Lines 52-56 of call_huggingface_model
PostProcess(text) ==
    LET feedback ==
            IF \E i \in 1..Len(text) : text[i] = Sentinel
            THEN Strip(AfterLast(text))
            ELSE text
    IN  IF feedback # <<>> THEN feedback ELSE NoFeedback

call_huggingface_model(o) ==
    CASE o.kind = "generated" -> PostProcess(o.text)
      [] o.kind = "import_error" ->
            <<"PyTorch/Transformers", "not", "available.", "Install", "with:",
              "pip", "install", "torch", "transformers">>
      [] OTHER -> <<"AI", "analysis", "failed:", o.msg>>

run_ai_analysis(o) ==
    IF o.kind = "escape"
    THEN [success |-> FALSE, error |-> <<o.msg>>,
          feedback |-> <<"AI", "analysis", "unavailable">>]
    ELSE [success |-> TRUE, feedback |-> call_huggingface_model(o),
          model_used |-> "Salesforce/codet5-base"]

\* ------------------------------------------------------------------------
\* reviewer.py: the orchestrator
\* ------------------------------------------------------------------------
supported_languages == {"Python", "JavaScript"}

\* A blank test without the strip: only the empty string is blank.
IsBlank_NoStrip(code) == code = <<>>

\* not code.strip()
IsBlank(code) == Strip(code) = <<>>

NoCodeError ==
    [error |-> <<"No", "code", "provided">>, static_analysis |-> <<>>, ai_analysis |-> <<>>]

\* An error text that does not name the language passed in.
UnsupportedError_Unnamed(language) ==
    [error |-> <<"Unsupported", "language:", "Unknown">>,
     static_analysis |-> <<>>, ai_analysis |-> <<>>]

UnsupportedError(language) ==
    [error |-> <<"Unsupported", "language:", language>>,
     static_analysis |-> <<>>, ai_analysis |-> <<>>]

\* A dispatch that runs every adapter for every supported language.
AdaptersFor_All(language) ==
    IF language \in {"Python", "JavaScript"} THEN <<"pylint", "bandit", "eslint">> ELSE <<>>

\* The adapters run_static_analysis calls for a language, in call order.
AdaptersFor(language) ==
    IF language = "Python" THEN <<"pylint", "bandit">>
    ELSE IF language = "JavaScript" THEN <<"eslint">>
    ELSE <<>>

\* The results dict run_static_analysis starts from.
EmptyStatic(language) ==
    [language |-> language, pylint |-> None, bandit |-> None, eslint |-> None]

\* A review_code that goes on to the AI commentary only when some adapter
\* succeeded.
AfterStatic_NeedsSuccess(static) ==
    IF \E a \in Adapters : static[a] # None /\ static[a].success THEN "ai" ELSE "assemble"

\* Where review_code goes once run_static_analysis has returned.
AfterStatic(static) == "ai"

RECURSIVE StaticFold(_, _, _)
StaticFold(todo, env, results) ==
    IF todo = <<>> THEN results
    ELSE StaticFold(Tail(todo), env,
                    [results EXCEPT ![Head(todo)] = RunAdapter(Head(todo), env[Head(todo)])])

\* env gives the outcome of each adapter call
run_static_analysis(language, env) ==
    StaticFold(AdaptersFor(language), env, EmptyStatic(language))

\* The dict review_code returns after both tracks have run.
Assemble(language, static, ai) ==
    [language |-> language, static_analysis |-> static, ai_analysis |-> ai,
     timestamp |-> "now"]

\* review_code as one function of its arguments and of what the tools do
review_code(code, language, env) ==
    IF IsBlank(code) THEN NoCodeError
    ELSE IF language \notin supported_languages THEN UnsupportedError(language)
    ELSE Assemble(language, run_static_analysis(language, env), run_ai_analysis(env.ai))

\* ------------------------------------------------------------------------
\* app.py: rendering
\* ------------------------------------------------------------------------
\* display_pylint_results, display_bandit_results and display_eslint_results
\* start with "if not data or not data.get('success'): st.error(data.get(...))":
\* for data = None the branch is taken and None.get raises AttributeError.
DisplayRaises(data) == data = None

\* The analyzer sections main renders for a language (lines 276-285)
SectionsFor(lang) ==
    IF lang = "Python" THEN <<"pylint", "bandit">>
    ELSE IF lang = "JavaScript" THEN <<"eslint">>
    ELSE <<>>

RECURSIVE SumMessages(_)
SumMessages(files) ==
    IF files = <<>> THEN 0
    ELSE Len(Get(Head(files), "messages", <<>>)) + SumMessages(Tail(files))

\* An issue count that counts eslint's file results instead of their messages.
CombinedIssueCount_Files(static_analysis) ==
    LET pylint_data == static_analysis.pylint
        bandit_data == static_analysis.bandit
        eslint_data == static_analysis.eslint
        n1 == IF pylint_data # None /\ pylint_data.success /\ pylint_data.results # <<>>
              THEN Len(pylint_data.results) ELSE 0
        n2 == IF bandit_data # None /\ bandit_data.success
              THEN Len(Get(bandit_data.results, "results", <<>>)) ELSE 0
        n3 == IF eslint_data # None /\ eslint_data.success /\ eslint_data.results # <<>>
              THEN Len(eslint_data.results) ELSE 0
    IN  n1 + n2 + n3

\* issue_count of the Combined Suggestions expander (lines 291-306)
CombinedIssueCount(static_analysis) ==
    LET pylint_data == static_analysis.pylint
        bandit_data == static_analysis.bandit
        eslint_data == static_analysis.eslint
        n1 == IF pylint_data # None /\ pylint_data.success /\ pylint_data.results # <<>>
              THEN Len(pylint_data.results) ELSE 0
        n2 == IF bandit_data # None /\ bandit_data.success
              THEN Len(Get(bandit_data.results, "results", <<>>)) ELSE 0
        n3 == IF eslint_data # None /\ eslint_data.success /\ eslint_data.results # <<>>
              THEN SumMessages(eslint_data.results) ELSE 0
    IN  n1 + n2 + n3

PylintReportLine(issue) == <<"Line", Str(issue.line), ":", issue.message>>

BanditReportLine(issue) ==
    <<"Line", Str(issue.line_number), ":", issue.issue_text, "(", issue.severity, ")">>

\* The report as the sequence of its lines, each the sequence of its words;
\* the feedback, appended last, is one entry.
download_report(results) ==
    LET static_analysis == results.static_analysis
        ai_analysis == results.ai_analysis
        header ==
            << <<"AI-Powered", "Code", "Review", "Report">>,
               <<"Generated:", "now">>,
               <<"Language:", results.language>>,
               <<>>,
               <<"===", "STATIC", "ANALYSIS", "RESULTS", "===">> >>
        pylint ==
            IF static_analysis.pylint # None /\ static_analysis.pylint.success
            THEN << <<>>, <<"---", "PYLINT", "RESULTS", "---">> >> \o
                 (LET res == static_analysis.pylint.results
                  IN  IF res # <<>>
                      THEN [i \in 1..Len(res) |-> PylintReportLine(res[i])]
                      ELSE << <<"No", "pylint", "issues", "found.">> >>)
            ELSE <<>>
        bandit ==
            IF static_analysis.bandit # None /\ static_analysis.bandit.success
            THEN << <<>>, <<"---", "BANDIT", "SECURITY", "RESULTS", "---">> >> \o
                 (LET issues == Get(static_analysis.bandit.results, "results", <<>>)
                  IN  IF issues # <<>>
                      THEN [i \in 1..Len(issues) |-> BanditReportLine(issues[i])]
                      ELSE << <<"No", "security", "issues", "found.">> >>)
            ELSE <<>>
        ai ==
            IF ai_analysis.success
            THEN << <<>>, <<"===", "AI", "ANALYSIS", "RESULTS", "===">>,
                    <<"Model:", ai_analysis.model_used>>, <<>>,
                    ai_analysis.feedback >>
            ELSE <<>>
    IN  header \o pylint \o bandit \o ai

NoView == [kind |-> "empty", sections |-> <<>>, issue_count |-> 0, report |-> <<>>]

\* "Display results if available" (lines 258-330): what a rerun renders for
\* the cached results and the language in session state. An exception raised
\* by a display function ends the script run.
Render(results, lang) ==
    IF results = None THEN NoView
    ELSE IF "error" \in DOMAIN results THEN [NoView EXCEPT !.kind = "error"]
    ELSE IF \E i \in 1..Len(SectionsFor(lang)) :
                DisplayRaises(results.static_analysis[SectionsFor(lang)[i]])
    THEN [NoView EXCEPT !.kind = "exception", !.sections = SectionsFor(lang)]
    ELSE [kind |-> "results",
          sections |-> SectionsFor(lang),
          issue_count |-> CombinedIssueCount(results.static_analysis),
          report |-> download_report(results)]

\* ------------------------------------------------------------------------
\* State
\* ------------------------------------------------------------------------
VARIABLES
    \* one call of review_code
    pc,              \* where the call is: idle, static, ai, assemble, returned
    arg_code,        \* its argument code
    arg_language,    \* its argument language
    todo,            \* the adapter calls run_static_analysis has still to make
    static_results,  \* the results dict of run_static_analysis
    ai_results,      \* what run_ai_analysis returned
    ret,             \* what review_code returned
    calls,           \* how often each adapter and the AI invoker ran in this call
    outcomes,        \* how each of those runs went
    tmpdir,          \* temporary files of the adapters that are on disk
    \* the page
    review_results,    \* st.session_state.review_results
    current_language,  \* st.session_state.current_language
    language,          \* the selectbox
    code,              \* the text area
    view,              \* what the last rerun rendered
    event              \* what the last rerun was

callVars == <<pc, arg_code, arg_language, todo, static_results, ai_results, ret,
              calls, outcomes>>
pageVars == <<review_results, current_language, language, code, view, event>>
vars == <<callVars, tmpdir, pageVars>>

Invokers == Adapters \cup {"ai"}

\* ------------------------------------------------------------------------
\* Spec: one call of review_code at a time, statement by statement
\* ------------------------------------------------------------------------
IdleFrame ==
    /\ pc = "idle"
    /\ arg_code = <<>>
    /\ arg_language = ""
    /\ todo = <<>>
    /\ static_results = None
    /\ ai_results = None
    /\ ret = None
    /\ calls = [i \in Invokers |-> 0]
    /\ outcomes = [i \in Invokers |-> None]

\* A caller calls review_code(c, l): lines 220-228, and the entry into
\* run_static_analysis.
Call(c, l) ==
    /\ pc = "idle"
    /\ arg_code' = c
    /\ arg_language' = l
    /\ IF IsBlank(c)
       THEN /\ ret' = NoCodeError
            /\ pc' = "returned"
            /\ UNCHANGED <<todo, static_results>>
       ELSE IF l \notin supported_languages
       THEN /\ ret' = UnsupportedError(l)
            /\ pc' = "returned"
            /\ UNCHANGED <<todo, static_results>>
       ELSE /\ pc' = "static"
            /\ static_results' = EmptyStatic(l)
            /\ todo' = AdaptersFor(l)
            /\ UNCHANGED ret
    /\ UNCHANGED <<ai_results, calls, outcomes, tmpdir, pageVars>>

\* run_static_analysis makes its next adapter call, which goes as o says.
StaticStep ==
    /\ pc = "static"
    /\ todo # <<>>
    /\ \E o \in Outcomes(Head(todo)) :
        /\ o.kind = "writefail" => tmpdir < MaxLeaks
        /\ static_results' = [static_results EXCEPT ![Head(todo)] = RunAdapter(Head(todo), o)]
        /\ calls' = [calls EXCEPT ![Head(todo)] = @ + 1]
        /\ outcomes' = [outcomes EXCEPT ![Head(todo)] = o]
        /\ tmpdir' = FilesAfter(Head(todo), o, tmpdir)
    /\ todo' = Tail(todo)
    /\ pc' = IF Tail(todo) = <<>> THEN AfterStatic(static_results') ELSE "static"
    /\ UNCHANGED <<arg_code, arg_language, ai_results, ret, pageVars>>

\* review_code calls run_ai_analysis, which goes as o says.
AIStep(o) ==
    /\ pc = "ai"
    /\ ai_results' = run_ai_analysis(o)
    /\ calls' = [calls EXCEPT !["ai"] = @ + 1]
    /\ outcomes' = [outcomes EXCEPT !["ai"] = o]
    /\ pc' = "assemble"
    /\ UNCHANGED <<arg_code, arg_language, todo, static_results, ret, tmpdir, pageVars>>

\* review_code returns the assembled dict.
Return ==
    /\ pc = "assemble"
    /\ ret' = Assemble(arg_language, static_results, ai_results)
    /\ pc' = "returned"
    /\ UNCHANGED <<arg_code, arg_language, todo, static_results, ai_results,
                   calls, outcomes, tmpdir, pageVars>>

\* The caller has the result; the frame of the call is gone.
Done ==
    /\ pc = "returned"
    /\ pc' = "idle"
    /\ arg_code' = <<>>
    /\ arg_language' = ""
    /\ todo' = <<>>
    /\ static_results' = None
    /\ ai_results' = None
    /\ ret' = None
    /\ calls' = [i \in Invokers |-> 0]
    /\ outcomes' = [i \in Invokers |-> None]
    /\ UNCHANGED <<tmpdir, pageVars>>

Running ==
    \/ StaticStep
    \/ \E o \in AiOutcomes : AIStep(o)
    \/ Return

Next ==
    \/ \E c \in Codes, l \in Languages : Call(c, l)
    \/ Running
    \/ Done

\* ------------------------------------------------------------------------
\* SpecUI: the page, one action per script rerun
\* ------------------------------------------------------------------------
\* What the tools do during one press of the button. The page reads a tool's
\* result through its success flag and its diagnostics only, so the presses
\* enumerate the runs that print parseable diagnostics, one unparseable
\* document and one failure per tool, and an AI call that succeeds or fails.
PageStdouts(a) ==
    CASE a = "pylint" -> { s \in PylintStdouts : \A i \in 1..Len(s) : s[i].kind = "json" }
      [] a = "bandit" -> { s \in BanditStdouts : s.kind # "empty" }
      [] a = "eslint" -> EslintStdouts

PageOutcomes(a) ==
    { o \in Outcomes(a) : \/ o.kind = "notfound"
                          \/ o.kind = "ran" /\ o.secs <= Timeout /\ o.out \in PageStdouts(a) }

PageAiOutcomes ==
    { o \in AiOutcomesOver({<<"ok">>}) : o.kind \in {"generated", "escape"} }

PythonEnvs ==
    { [pylint |-> p, bandit |-> b, ai |-> a] :
          p \in PageOutcomes("pylint"), b \in PageOutcomes("bandit"), a \in PageAiOutcomes }

JavaScriptEnvs ==
    { [eslint |-> e, ai |-> a] : e \in PageOutcomes("eslint"), a \in PageAiOutcomes }

PageEnvs(lang) == IF lang = "Python" THEN PythonEnvs ELSE JavaScriptEnvs

\* A rerun caused by the selectbox: line 190 stores the selection, the button
\* is not pressed, the cached results are rendered.
SelectLanguage(l) ==
    /\ l # language
    /\ language' = l
    /\ current_language' = l
    /\ view' = Render(review_results, l)
    /\ event' = "rerun"
    /\ UNCHANGED <<review_results, code>>
    /\ UNCHANGED <<callVars, tmpdir>>

\* A rerun caused by the text area that drops the cached results.
EditCode_Clears(c) ==
    /\ c # code
    /\ code' = c
    /\ current_language' = language
    /\ review_results' = None
    /\ view' = Render(None, language)
    /\ event' = "rerun"
    /\ UNCHANGED language
    /\ UNCHANGED <<callVars, tmpdir>>

\* A rerun caused by the text area.
EditCode(c) ==
    /\ c # code
    /\ code' = c
    /\ current_language' = language
    /\ view' = Render(review_results, language)
    /\ event' = "rerun"
    /\ UNCHANGED <<review_results, language>>
    /\ UNCHANGED <<callVars, tmpdir>>

\* The button is pressed with blank code (lines 223-225).
PressBlank ==
    /\ IsBlank(code)
    /\ review_results' = None
    /\ current_language' = language
    /\ view' = Render(None, language)
    /\ event' = "blank"
    /\ UNCHANGED <<language, code>>
    /\ UNCHANGED <<callVars, tmpdir>>

\* The button is pressed and review_code returns (lines 229-234).
PressReview ==
    /\ ~IsBlank(code)
    /\ \E env \in PageEnvs(language) :
        /\ review_results' = review_code(code, language, env)
        /\ view' = Render(review_results', language)
    /\ current_language' = language
    /\ event' = "reviewed"
    /\ UNCHANGED <<language, code>>
    /\ UNCHANGED <<callVars, tmpdir>>

\* The button is pressed and the review raises (lines 236-238).
PressRaise ==
    /\ ~IsBlank(code)
    /\ review_results' = None
    /\ current_language' = language
    /\ view' = Render(None, language)
    /\ event' = "raised"
    /\ UNCHANGED <<language, code>>
    /\ UNCHANGED <<callVars, tmpdir>>

NextUI ==
    \/ \E l \in SelectableLanguages : SelectLanguage(l)
    \/ \E c \in Codes : EditCode(c)
    \/ PressBlank
    \/ PressReview
    \/ PressRaise

\* ------------------------------------------------------------------------
\* Specifications
\* ------------------------------------------------------------------------
\* No call is running, no temporary file is on disk; the page has run once:
\* review_results is None, the selectbox shows its first option, the text
\* area is empty.
Init ==
    /\ IdleFrame
    /\ tmpdir = 0
    /\ review_results = None
    /\ current_language = "Python"
    /\ language = "Python"
    /\ code = <<>>
    /\ view = NoView
    /\ event = "rerun"

Spec == Init /\ [][Next]_vars

\* A running call makes progress: every adapter call ends (the subprocess
\* returns or is cut off by its timeout), and so does the model inference.
FairSpec == Spec /\ WF_vars(Running)

SpecUI == Init /\ [][NextUI]_vars

\* ------------------------------------------------------------------------
\* Properties of review_code and the adapters (Spec, FairSpec)
\* ------------------------------------------------------------------------
AllWhitespace(s) == \A i \in 1..Len(s) : s[i] \in Whitespace

NoInvokerRan == \A i \in Invokers : calls[i] = 0

\* words occurs in text as consecutive words
Contains(text, words) ==
    \E i \in 1..(Len(text) - Len(words) + 1) : SubSeq(text, i, i + Len(words) - 1) = words

InCall == pc # "idle"

\* C1: a call of review_code whose code is empty or all whitespace, with any
\* language, has returned the error "No code provided" and has run no adapter
\* and not the AI invoker.
C1_BlankCodeRejected ==
    (InCall /\ AllWhitespace(arg_code)) =>
        /\ pc = "returned"
        /\ "error" \in DOMAIN ret
        /\ ret.error = <<"No", "code", "provided">>
        /\ NoInvokerRan

C1_Witness ==
    /\ pc = "returned"
    /\ arg_code = <<" ">>
    /\ arg_language = "Python"
    /\ ret.error = <<"No", "code", "provided">>

\* C2: a call with non-blank code and a language other than Python and
\* JavaScript has returned the error "Unsupported language: <language>" naming
\* the language passed in, and has run no adapter and not the AI invoker.
C2_UnsupportedLanguageRejected ==
    (InCall /\ ~AllWhitespace(arg_code) /\ arg_language \notin {"Python", "JavaScript"}) =>
        /\ pc = "returned"
        /\ "error" \in DOMAIN ret
        /\ ret.error = <<"Unsupported", "language:", arg_language>>
        /\ NoInvokerRan

C2_Witness ==
    /\ pc = "returned"
    /\ arg_code = <<"a">>
    /\ arg_language = "python"
    /\ ret.error = <<"Unsupported", "language:", "python">>

\* C3: when a call with non-blank code returns, the adapters that ran are
\* given by the language alone: for Python pylint and bandit ran once each,
\* eslint did not run and its slot is null; for JavaScript eslint ran once,
\* pylint and bandit did not run and their slots are null. No adapter ever
\* runs twice in a call.
C3_AdaptersByLanguage ==
    /\ \A a \in Adapters : calls[a] <= 1
    /\ (pc = "returned" /\ ~AllWhitespace(arg_code) /\ arg_language = "Python") =>
          /\ calls["pylint"] = 1 /\ calls["bandit"] = 1 /\ calls["eslint"] = 0
          /\ ret.static_analysis.pylint # None
          /\ ret.static_analysis.bandit # None
          /\ ret.static_analysis.eslint = None
    /\ (pc = "returned" /\ ~AllWhitespace(arg_code) /\ arg_language = "JavaScript") =>
          /\ calls["pylint"] = 0 /\ calls["bandit"] = 0 /\ calls["eslint"] = 1
          /\ ret.static_analysis.pylint = None
          /\ ret.static_analysis.bandit = None
          /\ ret.static_analysis.eslint # None

\* A Python call has returned although pylint was not found and bandit timed
\* out.
C3_Witness ==
    /\ pc = "returned"
    /\ arg_language = "Python"
    /\ outcomes["pylint"] # None /\ outcomes["pylint"].kind = "notfound"
    /\ outcomes["bandit"] # None /\ outcomes["bandit"].kind = "ran"
    /\ outcomes["bandit"].secs > 30
    /\ calls["pylint"] = 1 /\ calls["bandit"] = 1
    /\ ret.static_analysis.eslint = None

Accepted == InCall /\ ~AllWhitespace(arg_code) /\ arg_language \in {"Python", "JavaScript"}

AdaptersDone ==
    /\ arg_language = "Python" => calls["pylint"] = 1 /\ calls["bandit"] = 1
    /\ arg_language = "JavaScript" => calls["eslint"] = 1

\* C4: every call with non-blank code and a supported language leads to the
\* AI invoker being invoked, whatever the adapters' outcomes; it is invoked
\* only after the adapters of the language have run; and the result the call
\* returns carries the static_analysis record and the ai_analysis record.
C4_AIAlwaysAttempted ==
    /\ Accepted ~> (calls["ai"] = 1)
    /\ [](calls["ai"] >= 1 => AdaptersDone)
    /\ []((pc = "returned" /\ Accepted) =>
            /\ calls["ai"] = 1
            /\ ret.static_analysis = static_results /\ static_results # None
            /\ ret.ai_analysis = ai_results /\ ai_results # None)

\* A Python call whose two adapters both failed has returned with the AI
\* commentary.
C4_Witness ==
    /\ pc = "returned"
    /\ arg_language = "Python"
    /\ "error" \notin DOMAIN ret
    /\ ~ret.static_analysis.pylint.success
    /\ ~ret.static_analysis.bandit.success
    /\ calls["ai"] = 1
    /\ ret.ai_analysis.success

\* C5: after every adapter call, however it ended, the temporary file the
\* call created is gone: no temporary file of an adapter is on disk.
C5_TempFileRemoved == tmpdir = 0

TimedOut(a) == outcomes[a] # None /\ outcomes[a].kind = "ran" /\ outcomes[a].secs > 30

\* C6: an adapter whose subprocess did not return within 30 seconds has
\* returned, after that one run, success = false, an error text saying
\* "timed out", and an empty results container.
C6_TimeoutReported ==
    \A a \in Adapters :
        TimedOut(a) =>
            /\ calls[a] = 1
            /\ static_results[a] # None
            /\ ~static_results[a].success
            /\ "error" \in DOMAIN static_results[a]
            /\ Contains(static_results[a].error, <<"timed", "out">>)
            /\ static_results[a].results = <<>>

C6_Witness ==
    /\ TimedOut("pylint")
    /\ TimedOut("bandit")
    /\ pc = "returned"

InstallRemedy(a) ==
    CASE a = "pylint" -> <<"pip", "install", "pylint">>
      [] a = "bandit" -> <<"pip", "install", "bandit">>
      [] a = "eslint" -> <<"npm", "install", "-g", "eslint">>

\* What each adapter says when its tool is missing, the same for every code.
NotInstalledText(a) ==
    CASE a = "pylint" -> <<"pylint", "not", "found.", "Run:">> \o InstallRemedy(a)
      [] a = "bandit" -> <<"bandit", "not", "found.", "Run:">> \o InstallRemedy(a)
      [] a = "eslint" ->
            <<"ESLint/Node", "not", "found.", "Install", "Node.js", "+">> \o InstallRemedy(a)

ToolMissing(a) == outcomes[a] # None /\ outcomes[a].kind = "notfound"

\* C7: an adapter whose executable was not found has returned success = false,
\* an empty results container and an error text that names the install remedy
\* of its tool; the text is one fixed text per adapter, whatever the code.
C7_ToolMissingReported ==
    \A a \in Adapters :
        ToolMissing(a) =>
            /\ static_results[a] # None
            /\ ~static_results[a].success
            /\ static_results[a].results = <<>>
            /\ "error" \in DOMAIN static_results[a]
            /\ Contains(static_results[a].error, InstallRemedy(a))
            /\ static_results[a].error = NotInstalledText(a)

C7_Witness ==
    /\ ToolMissing("eslint")
    /\ arg_code = <<"a">>
    /\ pc = "returned"

\* ------------------------------------------------------------------------
\* Properties of the page (SpecUI)
\* ------------------------------------------------------------------------
Present(slot) == slot # None /\ slot.success

RECURSIVE Flatten(_)
Flatten(seqs) == IF seqs = <<>> THEN <<>> ELSE Head(seqs) \o Flatten(Tail(seqs))

\* The diagnostics of an analyzer slot, in the tool's order.
PylintDiagnostics(slot) == IF Present(slot) THEN slot.results ELSE <<>>
BanditDiagnostics(slot) ==
    IF Present(slot) /\ "results" \in DOMAIN slot.results THEN slot.results.results ELSE <<>>
EslintDiagnostics(slot) ==
    IF Present(slot)
    THEN Flatten([i \in 1..Len(slot.results) |-> slot.results[i].messages])
    ELSE <<>>

\* The message text of every diagnostic of a result, tools in their fixed
\* order.
DiagnosticTexts(static_analysis) ==
    [i \in 1..Len(PylintDiagnostics(static_analysis.pylint)) |->
        PylintDiagnostics(static_analysis.pylint)[i].message]
    \o [i \in 1..Len(BanditDiagnostics(static_analysis.bandit)) |->
        BanditDiagnostics(static_analysis.bandit)[i].issue_text]
    \o [i \in 1..Len(EslintDiagnostics(static_analysis.eslint)) |->
        EslintDiagnostics(static_analysis.eslint)[i].message]

\* Each text is a word of a line of its own, the lines in the order of the
\* texts.
RECURSIVE LinesCarry(_, _)
LinesCarry(lines, texts) ==
    IF texts = <<>> THEN TRUE
    ELSE IF lines = <<>> THEN FALSE
    ELSE IF \E i \in 1..Len(Head(lines)) : Head(lines)[i] = Head(texts)
         THEN LinesCarry(Tail(lines), Tail(texts))
         ELSE LinesCarry(Tail(lines), texts)

\* C8: the report of a rendered result has, in order, one line for every
\* diagnostic of every analyzer present in the result, and ends with the
\* feedback of a successful AI analysis, verbatim.
C8_ReportCarriesResult ==
    view.kind = "results" =>
        /\ LinesCarry(view.report, DiagnosticTexts(review_results.static_analysis))
        /\ review_results.ai_analysis.success =>
               /\ view.report # <<>>
               /\ view.report[Len(view.report)] = review_results.ai_analysis.feedback

ExpectedIssueCount(static_analysis) ==
    Len(PylintDiagnostics(static_analysis.pylint))
        + Len(BanditDiagnostics(static_analysis.bandit))
        + Len(EslintDiagnostics(static_analysis.eslint))

\* C9: the issue count of the Combined Suggestions view is the number of
\* diagnostics of the slots that are present with success = true: pylint's
\* results, bandit's nested issue list, eslint's messages over all file
\* results; a null or failed slot adds nothing.
C9_CombinedIssueCount ==
    view.kind = "results" =>
        view.issue_count = ExpectedIssueCount(review_results.static_analysis)

\* A JavaScript result of two file results, one of them without messages, is
\* shown with the count of its messages.
C9_Witness ==
    /\ view.kind = "results"
    /\ Present(review_results.static_analysis.eslint)
    /\ Len(review_results.static_analysis.eslint.results) = 2
    /\ view.issue_count = 1
    /\ review_results.static_analysis.pylint = None

\* What one rerun does to the cached results.
CacheStep ==
    /\ event' = "rerun" => review_results' = review_results
    /\ event' = "blank" => AllWhitespace(code) /\ review_results' = None
    /\ event' = "raised" => ~AllWhitespace(code) /\ review_results' = None
    /\ event' = "reviewed" =>
          /\ ~AllWhitespace(code)
          /\ review_results' # None
          /\ "error" \notin DOMAIN review_results'
          /\ review_results'.language = language
          /\ \A i \in 1..Len(SectionsFor(language)) :
                 review_results'.static_analysis[SectionsFor(language)[i]] # None

\* C10: the cached results start empty; a rerun that is no button press
\* leaves them unchanged; a press with blank code, or one whose review
\* raises, empties them; a press with non-blank code whose review returns
\* replaces them by a result for the language of that request.
C10_SingleSlotCache == (review_results = None) /\ [][CacheStep]_vars

\* A result cached for JavaScript: the selectbox was changed by a rerun
\* before the press that stored it.
C10_Witness ==
    /\ event = "reviewed"
    /\ review_results # None
    /\ review_results.language = "JavaScript"

\* ------------------------------------------------------------------------
\* Properties of the AI commentary invoker (Spec)
\* ------------------------------------------------------------------------
Generated == outcomes["ai"] # None /\ outcomes["ai"].kind = "generated"

HasSentinel(text) == \E i \in 1..Len(text) : text[i] = "REVIEW:"

\* The text after the last occurrence of the sentinel.
TailAfterSentinel(text) ==
    LET last == CHOOSE i \in 1..Len(text) :
                    /\ text[i] = "REVIEW:"
                    /\ \A j \in (i + 1)..Len(text) : text[j] # "REVIEW:"
    IN  SubSeq(text, last + 1, Len(text))

\* The text the claim keeps: trimmed after the last sentinel, else all of it.
KeptText(text) == IF HasSentinel(text) THEN Strip(TailAfterSentinel(text)) ELSE text

\* C11: for generated text, the feedback is the trimmed text after the last
\* "REVIEW:" when the text has one, else the whole text; when that text is
\* empty after trimming whitespace, with or without a sentinel, the feedback
\* is "AI model generated no specific feedback." instead, so the feedback is
\* never empty or all whitespace.
C11_FeedbackPostProcessed ==
    Generated =>
        /\ ai_results.feedback =
               IF AllWhitespace(KeptText(outcomes["ai"].text))
               THEN <<"AI", "model", "generated", "no", "specific", "feedback.">>
               ELSE KeptText(outcomes["ai"].text)
        /\ ~AllWhitespace(ai_results.feedback)

\* ------------------------------------------------------------------------
\* Properties of the page, continued (SpecUI)
\* ------------------------------------------------------------------------
CachedResult == review_results # None /\ "error" \notin DOMAIN review_results

\* C12: whenever a cached non-error result is rendered, the language that
\* chooses the analyzer sections is the language of the cached result, so no
\* display function is called with a null analyzer result and none raises.
C12_SectionsMatchCachedResult ==
    CachedResult =>
        /\ current_language = review_results.language
        /\ \A i \in 1..Len(view.sections) :
               review_results.static_analysis[view.sections[i]] # None
        /\ view.kind # "exception"

====
